---- MODULE Spec2Model ----
(***************************************************************************)
(* Verification model of src/pii_ocr_masking.py: DocumentProcessor parses  *)
(* the images of a directory, diffs every pair of retained documents,      *)
(* masks PII in each diff text and accumulates an unmasked and a masked    *)
(* report; and of src/pii_sum_ollama.py (src/pii_report_sum.py):           *)
(* DiffReportProcessor reads a report back and writes a summary of each    *)
(* of its sections.                                                        *)
(*                                                                         *)
(* Specifications: Spec (process_directory), SpecDiff and SpecLines        *)
(* (compare_texts on its own), SpecMask (mask_pii on its own), SpecReport  *)
(* (process_report of DiffReportProcessor).                                *)
(*                                                                         *)
(* Text is modelled as a sequence of tokens (strings).  A token stands for *)
(* a run of characters of one class: "\n" is a line break, " " a blank,    *)
(* a word is a run of letters, and so on.  Offsets of entity spans are     *)
(* token offsets, 0-based and half-open like the character offsets of the  *)
(* analyzer results.                                                       *)
(***************************************************************************)
EXTENDS Integers, Sequences, FiniteSets, TLC

VARIABLES
    pc,               \* position in process_directory
    is_dir,           \* self.input_path.is_dir()
    listing,          \* what self.input_path.glob("*") is still to yield
    images,           \* the list `images`
    idx,              \* position of the loop over images / over documents.items()
    documents,        \* the dict `documents`, in insertion order
    ocr_log,          \* per image name: what parse_image met (the log lines 158/161)
    i, j,             \* positions of the pairwise loops (1-based into documents)
    unmasked_report,  \* the list unmasked_report
    masked_report,    \* the list masked_report
    mask_log,         \* per compared pair: names, diff text, whether mask_pii logged an error
    unmasked_file,    \* content written to diff_report_<ts>.txt
    masked_file,      \* content written to diff_report_masked_<ts>.txt
    doc_file,         \* the masked_<name>_<ts>.txt file being written
    fn_in,            \* inputs of a pure function under check
    fn_out            \* its result

vars == <<pc, is_dir, listing, images, idx, documents, ocr_log, i, j, unmasked_report,
          masked_report, mask_log, unmasked_file, masked_file, doc_file,
          fn_in, fn_out>>

pipe_vars == <<pc, is_dir, listing, images, idx, documents, ocr_log, i, j, unmasked_report,
               masked_report, mask_log, unmasked_file, masked_file, doc_file>>

----------------------------------------------------------------------------
(* Bounds *)

\* Largest number of image files in the input directory.
MaxImages == 3
\* Largest number of spans the statistical recognizer reports for one text.
MaxStatSpans == 1
\* Largest number of tokens of a text handed to compare_texts on its own.
MaxTextLen == 3
\* Largest number of lines of a text handed to compare_texts on its own.
MaxLines == 5
\* Largest number of tokens of a text handed to mask_pii on its own.
MaxMaskLen == 3
\* Largest number of "Comparison:" lines of a file handed to DiffReportProcessor.
MaxSections == 3

----------------------------------------------------------------------------
(* Generic sequence helpers *)

NL == "\n"

Max(a, b) == IF a > b THEN a ELSE b
Min(a, b) == IF a < b THEN a ELSE b

\* seq[a..b) with 0-based half-open offsets, as a Python slice seq[a:b].
Slice(seq, a, b) == IF b <= a THEN <<>> ELSE SubSeq(seq, a + 1, b)

RECURSIVE Flatten(_)
\* "".join(parts)
Flatten(parts) ==
    IF parts = <<>> THEN <<>> ELSE Head(parts) \o Flatten(Tail(parts))

RECURSIVE JoinLines(_)
\* "\n".join(lines)
JoinLines(lines) ==
    IF lines = <<>> THEN <<>>
    ELSE IF Len(lines) = 1 THEN lines[1]
    ELSE lines[1] \o <<NL>> \o JoinLines(Tail(lines))

\* needle occurs in hay as a contiguous run
Contains(hay, needle) ==
    \E s \in 0..(Len(hay) - Len(needle)) : Slice(hay, s, s + Len(needle)) = needle

RECURSIVE RepStr(_, _)
\* c * n for a one-character string c
RepStr(c, n) == IF n = 0 THEN "" ELSE c \o RepStr(c, n - 1)

RECURSIVE Splitlines(_)
\* str.splitlines(): lines without their line breaks; a trailing line break
\* opens no further line.
Splitlines(text) ==
    IF text = <<>> THEN <<>>
    ELSE IF \E p \in 1..Len(text) : text[p] = NL
         THEN LET p == CHOOSE q \in 1..Len(text) :
                          text[q] = NL /\ \A r \in 1..(q - 1) : text[r] # NL
              IN <<SubSeq(text, 1, p - 1)>> \o Splitlines(SubSeq(text, p + 1, Len(text)))
         ELSE <<text>>

----------------------------------------------------------------------------
(* compare_texts: difflib.unified_diff over the lines of the two texts *)

\* Context lines of unified_diff (its default n).
DiffContext == 3

RECURSIVE MatchLen(_, _, _, _, _, _)
\* length of the common run of a and b starting at a[x], b[y] (0-based)
MatchLen(a, b, x, y, ahi, bhi) ==
    IF x < ahi /\ y < bhi /\ a[x + 1] = b[y + 1]
    THEN 1 + MatchLen(a, b, x + 1, y + 1, ahi, bhi)
    ELSE 0

\* SequenceMatcher.find_longest_match without junk: the longest block of
\* a[alo:ahi] and b[blo:bhi]; of those the earliest in a, then earliest in b.
FindLongestMatch(a, b, alo, ahi, blo, bhi) ==
    LET Cand == {<<x, y>> \in (alo..(ahi - 1)) \X (blo..(bhi - 1)) :
                     MatchLen(a, b, x, y, ahi, bhi) > 0}
        Size(c) == MatchLen(a, b, c[1], c[2], ahi, bhi)
    IN IF Cand = {} THEN <<alo, blo, 0>>
       ELSE LET best == CHOOSE c \in Cand : \A d \in Cand :
                            \/ Size(c) > Size(d)
                            \/ /\ Size(c) = Size(d)
                               /\ \/ c[1] < d[1]
                                  \/ c[1] = d[1] /\ c[2] <= d[2]
            IN <<best[1], best[2], Size(best)>>

RECURSIVE MatchingBlocks(_, _, _, _, _, _)
\* SequenceMatcher.get_matching_blocks, before the closing (la, lb, 0) block
MatchingBlocks(a, b, alo, ahi, blo, bhi) ==
    LET m == FindLongestMatch(a, b, alo, ahi, blo, bhi)
    IN IF m[3] = 0 THEN <<>>
       ELSE MatchingBlocks(a, b, alo, m[1], blo, m[2])
            \o <<m>>
            \o MatchingBlocks(a, b, m[1] + m[3], ahi, m[2] + m[3], bhi)

RECURSIVE OpcodesFrom(_, _, _)
\* the loop of SequenceMatcher.get_opcodes over the matching blocks
OpcodesFrom(blocks, x, y) ==
    IF blocks = <<>> THEN <<>>
    ELSE LET blk == Head(blocks)
             ai == blk[1]
             bj == blk[2]
             size == blk[3]
             tag == IF x < ai /\ y < bj THEN "replace"
                    ELSE IF x < ai THEN "delete"
                    ELSE IF y < bj THEN "insert"
                    ELSE ""
             gap == IF tag # "" THEN <<<<tag, x, ai, y, bj>>>> ELSE <<>>
             eq == IF size > 0
                   THEN <<<<"equal", ai, ai + size, bj, bj + size>>>>
                   ELSE <<>>
         IN gap \o eq \o OpcodesFrom(Tail(blocks), ai + size, bj + size)

GetOpcodes(a, b) ==
    OpcodesFrom(MatchingBlocks(a, b, 0, Len(a), 0, Len(b)) \o <<<<Len(a), Len(b), 0>>>>,
                0, 0)

RECURSIVE GroupLoopKeepEqual(_, _, _)
\* GroupLoop without the final test that drops a group of one equal run
GroupLoopKeepEqual(codes, group, n) ==
    IF codes = <<>>
    THEN IF group # <<>> THEN <<group>> ELSE <<>>
    ELSE IF Head(codes)[1] = "equal" /\ Head(codes)[3] - Head(codes)[2] > n + n
         THEN <<Append(group, <<"equal", Head(codes)[2],
                                 Min(Head(codes)[3], Head(codes)[2] + n),
                                 Head(codes)[4],
                                 Min(Head(codes)[5], Head(codes)[4] + n)>>)>>
              \o GroupLoopKeepEqual(Tail(codes),
                                    <<<<"equal", Max(Head(codes)[2], Head(codes)[3] - n),
                                        Head(codes)[3],
                                        Max(Head(codes)[4], Head(codes)[5] - n),
                                        Head(codes)[5]>>>>, n)
         ELSE GroupLoopKeepEqual(Tail(codes), Append(group, Head(codes)), n)

RECURSIVE GroupLoop(_, _, _)
\* the loop of get_grouped_opcodes: closes a group at every long equal run
GroupLoop(codes, group, n) ==
    IF codes = <<>>
    THEN IF group # <<>> /\ ~(Len(group) = 1 /\ group[1][1] = "equal")
         THEN <<group>> ELSE <<>>
    ELSE LET c == Head(codes)
         IN IF c[1] = "equal" /\ c[3] - c[2] > n + n
            THEN <<Append(group, <<"equal", c[2], Min(c[3], c[2] + n),
                                    c[4], Min(c[5], c[4] + n)>>)>>
                 \o GroupLoop(Tail(codes),
                              <<<<"equal", Max(c[2], c[3] - n), c[3],
                                  Max(c[4], c[5] - n), c[5]>>>>, n)
            ELSE GroupLoop(Tail(codes), Append(group, c), n)

\* get_grouped_opcodes: `if not codes: codes = [("equal", 0, 1, 0, 1)]`
NonEmptyCodes(codes) == IF codes = <<>> THEN <<<<"equal", 0, 1, 0, 1>>>> ELSE codes

\* TrimFirst keeping the first n lines of a leading equal run
TrimFirstHead(codes, n) ==
    [k \in 1..Len(codes) |->
        IF k = 1 /\ codes[k][1] = "equal"
        THEN <<"equal", codes[k][2], Min(codes[k][3], codes[k][2] + n),
               codes[k][4], Min(codes[k][5], codes[k][4] + n)>>
        ELSE codes[k]]

\* get_grouped_opcodes: a leading equal run keeps its last n lines
TrimFirst(codes, n) ==
    [k \in 1..Len(codes) |->
        IF k = 1 /\ codes[k][1] = "equal"
        THEN <<"equal", Max(codes[k][2], codes[k][3] - n), codes[k][3],
               Max(codes[k][4], codes[k][5] - n), codes[k][5]>>
        ELSE codes[k]]

\* get_grouped_opcodes: a trailing equal run keeps its first n lines
TrimLast(codes, n) ==
    [k \in 1..Len(codes) |->
        IF k = Len(codes) /\ codes[k][1] = "equal"
        THEN <<"equal", codes[k][2], Min(codes[k][3], codes[k][2] + n),
               codes[k][4], Min(codes[k][5], codes[k][4] + n)>>
        ELSE codes[k]]

\* SequenceMatcher.get_grouped_opcodes(n)
GetGroupedOpcodes(a, b, n) ==
    GroupLoop(TrimLast(TrimFirst(NonEmptyCodes(GetOpcodes(a, b)), n), n), <<>>, n)

\* difflib._format_range_unified
FormatRangeUnified(start, stop) ==
    LET length == stop - start
    IN IF length = 1 THEN ToString(start + 1)
       ELSE IF length = 0 THEN ToString(start) \o "," \o ToString(length)
       ELSE ToString(start + 1) \o "," \o ToString(length)

\* the lines of the slice lines[a:b], each with the prefix token in front
Prefixed(prefix, lines, a, b) ==
    [k \in 1..(Min(b, Len(lines)) - a) |-> <<prefix>> \o lines[a + k]]

RECURSIVE HunkBody(_, _, _)
HunkBody(group, a, b) ==
    IF group = <<>> THEN <<>>
    ELSE LET c == Head(group)
             here == IF c[1] = "equal" THEN Prefixed(" ", a, c[2], c[3])
                     ELSE (IF c[1] \in {"replace", "delete"}
                           THEN Prefixed("-", a, c[2], c[3]) ELSE <<>>)
                          \o (IF c[1] \in {"replace", "insert"}
                              THEN Prefixed("+", b, c[4], c[5]) ELSE <<>>)
         IN here \o HunkBody(Tail(group), a, b)

RECURSIVE Hunks(_, _, _)
Hunks(groups, a, b) ==
    IF groups = <<>> THEN <<>>
    ELSE LET g == Head(groups)
             first == g[1]
             last == g[Len(g)]
             header == <<"@@ -" \o FormatRangeUnified(first[2], last[3])
                         \o " +" \o FormatRangeUnified(first[4], last[5]) \o " @@">>
         IN <<header>> \o HunkBody(g, a, b) \o Hunks(Tail(groups), a, b)

\* difflib.unified_diff(a, b, fromfile, tofile, lineterm=''): a list of lines
UnifiedDiff(a, b, fromfile, tofile) ==
    LET groups == GetGroupedOpcodes(a, b, DiffContext)
    IN IF groups = <<>> THEN <<>>
       ELSE <<<<"--- ", fromfile>>, <<"+++ ", tofile>>>> \o Hunks(groups, a, b)

\* DocumentProcessor.compare_texts
compare_texts(text1, text2, name1, name2) ==
    UnifiedDiff(Splitlines(text1), Splitlines(text2), name1, name2)

----------------------------------------------------------------------------
(* mask_pii: analyzer (pattern recognizers and the statistical recognizer), *)
(* then the anonymizer's replacement of every result by "<TYPE>".           *)

\* score_threshold=0.6 of the analyze call, in hundredths
ScoreThreshold == 60
\* score of NAME_PATTERN, in hundredths
NameScore == 100
\* score of SSN_PATTERN, in hundredths
SsnScore == 90
\* score of PHONE_PATTERN, in hundredths
PhoneScore == 95
\* score of EMAIL_PATTERN, in hundredths
EmailScore == 80

NoDiffMarker == "No Differences Found"
DiffTitle == "Differences Found:"

\* tokens that are runs of letters and dots
Words == {"Alice", "Bob", "x", "y"}
\* tokens the SSN regex \b\d{3}-\d{2}-\d{4}\b matches as a whole
SsnTokens == {"123-45-6789"}
\* tokens the phone regex \(?\d{3}\)?[\s-]?\d{3}-\d{4}\b matches as a whole
PhoneTokens == {"555-123-4567"}

\* tokens of letters with a dot inside, which [\w\.-]+\.\w+ matches as a whole
DottedTokens == {"www.a.com"}

\* \s
IsSpace(t) == t \in {" ", NL}
\* a token all of whose characters are in [A-Za-z\s\.]
IsNameChar(t) == IsSpace(t) \/ t \in Words \/ t \in DottedTokens \/ t = NoDiffMarker
\* a token all of whose characters are in [\w\.-] and that starts with a
\* word character
IsEmailWord(t) == t \in Words \/ t \in DottedTokens \/ t \in SsnTokens \/ t \in PhoneTokens

RECURSIVE SpaceRun(_, _)
\* number of consecutive \s tokens from text[q] on (1-based q)
SpaceRun(text, q) ==
    IF q <= Len(text) /\ IsSpace(text[q]) THEN 1 + SpaceRun(text, q + 1) ELSE 0

RECURSIVE NameCharRun(_, _)
\* number of consecutive [A-Za-z\s\.] tokens from text[q] on (1-based q)
NameCharRun(text, q) ==
    IF q <= Len(text) /\ IsNameChar(text[q]) THEN 1 + NameCharRun(text, q + 1) ELSE 0

\* The match of  Name:\s*([A-Za-z\s\.]+?)\s*(?=\n|$)  that starts at the
\* "Name:" token text[p]: the end offset of the match, 0 when there is none.
\* The regex engine prefers the longest first \s*, then the shortest group,
\* then the longest second \s*; the lookahead holds at the end of the text
\* and before a line break (the recognizer compiles with MULTILINE).
NameMatchEnd(text, p) ==
    LET n == Len(text)
        run == NameCharRun(text, p + 1)
        sp == SpaceRun(text, p + 1)
        Cand == {c \in (0..sp) \X (1..run) \X (0..run) :
                    /\ c[1] + c[2] + c[3] <= run
                    /\ c[3] <= SpaceRun(text, p + c[1] + c[2] + 1)
                    /\ LET e == p + c[1] + c[2] + c[3]
                       IN e = n \/ text[e + 1] = NL}
        Pref(c, d) == \/ c[1] > d[1]
                      \/ c[1] = d[1] /\ c[2] < d[2]
                      \/ c[1] = d[1] /\ c[2] = d[2] /\ c[3] >= d[3]
    IN IF text[p] # "Name:" \/ Cand = {} THEN 0
       ELSE LET c == CHOOSE c \in Cand : \A d \in Cand : Pref(c, d)
            IN p + c[1] + c[2] + c[3]

RECURSIVE NameSpansFrom(_, _)
\* re.finditer of NAME_PATTERN from text[p] on: successive non-overlapping
\* matches, each a PERSON result over the whole match.
NameSpansFrom(text, p) ==
    IF p > Len(text) THEN {}
    ELSE LET e == NameMatchEnd(text, p)
         IN IF e = 0 THEN NameSpansFrom(text, p + 1)
            ELSE {[type |-> "PERSON", start |-> p - 1, end |-> e,
                   score |-> NameScore, source |-> "pattern"]}
                 \cup NameSpansFrom(text, e + 1)

\* The match of  \b[\w\.-]+[@\s@][\w\.-]+\.\w+\b  that starts at text[p]: a
\* token of [\w\.-], one blank or line break, a dotted token.
EmailMatchAt(text, p) ==
    /\ p + 2 <= Len(text)
    /\ IsEmailWord(text[p])
    /\ IsSpace(text[p + 1])
    /\ text[p + 2] \in DottedTokens

RECURSIVE EmailSpansFrom(_, _)
\* re.finditer of EMAIL_PATTERN from text[p] on: successive non-overlapping
\* matches, each an EMAIL_ADDRESS result over the whole match.
EmailSpansFrom(text, p) ==
    IF p > Len(text) THEN {}
    ELSE IF EmailMatchAt(text, p)
         THEN {[type |-> "EMAIL_ADDRESS", start |-> p - 1, end |-> p + 2,
                score |-> EmailScore, source |-> "pattern"]}
              \cup EmailSpansFrom(text, p + 3)
         ELSE EmailSpansFrom(text, p + 1)

\* results of the custom pattern recognizers registered in _setup_presidio
PatternSpans(text) ==
    NameSpansFrom(text, 1)
    \cup EmailSpansFrom(text, 1)
    \cup {[type |-> "SSN", start |-> k - 1, end |-> k,
           score |-> SsnScore, source |-> "pattern"] :
             k \in {q \in 1..Len(text) : text[q] \in SsnTokens}}
    \cup {[type |-> "PHONE_NUMBER", start |-> k - 1, end |-> k,
           score |-> PhoneScore, source |-> "pattern"] :
             k \in {q \in 1..Len(text) : text[q] \in PhoneTokens}}

\* analyze without its score threshold
AnalyzerResultsUnfiltered(text, stat) == PatternSpans(text) \cup stat

\* self.analyzer.analyze(text, entities, score_threshold=0.6): the pattern
\* results and the statistical results `stat`, without those under the threshold
AnalyzerResults(text, stat) ==
    {r \in PatternSpans(text) \cup stat : r.score >= ScoreThreshold}

\* RecognizerResult.intersects(other) > 0
Intersects(r, o) == Min(r.end, o.end) - Max(r.start, o.start) > 0

RECURSIVE MergeSameType(_)
\* the anonymizer merges intersecting results of one entity type
MergeSameType(S) ==
    LET Pairs == {p \in S \X S : p[1] # p[2] /\ p[1].type = p[2].type
                                   /\ Intersects(p[1], p[2])}
    IN IF Pairs = {} THEN S
       ELSE LET p == CHOOSE q \in Pairs : TRUE
                m == [type |-> p[1].type,
                      start |-> Min(p[1].start, p[2].start),
                      end |-> Max(p[1].end, p[2].end),
                      score |-> Max(p[1].score, p[2].score),
                      source |-> IF "pattern" \in {p[1].source, p[2].source}
                                 THEN "pattern" ELSE "statistical"]
            IN MergeSameType((S \ {p[1], p[2]}) \cup {m})

\* r precedes o in the analyzer's result list: the results of the recognizers
\* loaded with the engine come before those of the recognizers added by
\* _setup_presidio
ListedBefore(r, o) == r.source = "statistical" /\ o.source = "pattern"

\* RecognizerResult.has_conflict(other), the tie of equal ranges and scores
\* going against the result listed first
HasConflict(r, o) ==
    IF r.start = o.start /\ r.end = o.end
    THEN r.score < o.score \/ (r.score = o.score /\ ListedBefore(r, o))
    ELSE o.start <= r.start /\ r.end <= o.end

\* the results the anonymizer keeps
RemoveConflicts(S) ==
    LET M == MergeSameType(S)
    IN {r \in M : ~\E o \in M : o # r /\ HasConflict(r, o)}

RECURSIVE SortByStart(_)
\* the kept results in ascending (start, end) order
SortByStart(S) ==
    IF S = {} THEN <<>>
    ELSE LET m == CHOOSE r \in S : \A o \in S :
                      \/ r.start < o.start
                      \/ r.start = o.start /\ r.end < o.end
                      \/ r.start = o.start /\ r.end = o.end
             first == CHOOSE r \in S : r.start = m.start /\ r.end = m.end
         IN <<first>> \o SortByStart(S \ {first})

RECURSIVE MergeAcrossBlanks(_, _)
\* the anonymizer merges neighbours of one type that only blanks separate
MergeAcrossBlanks(text, seq) ==
    IF Len(seq) < 2 THEN seq
    ELSE LET a == seq[1]
             b == seq[2]
             gap == Slice(text, a.end, b.start)
         IN IF a.type = b.type /\ gap # <<>> /\ \A k \in 1..Len(gap) : gap[k] = " "
            THEN MergeAcrossBlanks(text, <<[b EXCEPT !.start = a.start]>> \o Tail(Tail(seq)))
            ELSE <<a>> \o MergeAcrossBlanks(text, Tail(seq))

\* OperatorConfig("replace", {"new_value": f"<{r.entity_type}>"})
Placeholder(type) == "<" \o type \o ">"

RECURSIVE ListOrder(_)
\* the order of the analyzer's result list: descending score, then ascending
\* start, then descending length
ListOrder(S) ==
    IF S = {} THEN <<>>
    ELSE LET first == CHOOSE r \in S : \A o \in S :
                          \/ r.score > o.score
                          \/ r.score = o.score /\ r.start < o.start
                          \/ r.score = o.score /\ r.start = o.start /\ r.end >= o.end
         IN <<first>> \o ListOrder(S \ {first})

\* the results the anonymizer replaces, in ascending order: the analyzer's
\* results without the conflicting ones, neighbours in the list merged across
\* blanks
KeptSpans(text, results) ==
    SortByStart({MergeAcrossBlanks(text, ListOrder(RemoveConflicts(results)))[k] :
                   k \in 1..Len(MergeAcrossBlanks(text, ListOrder(RemoveConflicts(results))))})

\* the order in which the anonymizer goes through the results
OperateOrderAscending(seq) == seq
\* sorted(pii_entities, reverse=True)
OperateOrder(seq) == [k \in 1..Len(seq) |-> seq[Len(seq) + 1 - k]]

RECURSIVE ReplaceEach(_, _, _)
\* the loop over the results: output_text[:start] + new_value
\* + output_text[min(end, last_replacement_index):], then
\* last_replacement_index = start
ReplaceEach(output, seq, last) ==
    IF seq = <<>> THEN output
    ELSE ReplaceEach(Slice(output, 0, Head(seq).start)
                     \o <<Placeholder(Head(seq).type)>>
                     \o Slice(output, Min(Head(seq).end, last), Len(output)),
                     Tail(seq), Head(seq).start)

\* self.anonymizer.anonymize(text, analyzer_results, operators).text
Anonymize(text, results) ==
    ReplaceEach(text, OperateOrder(KeptSpans(text, results)), Len(text))

\* mask_pii returning a rewritten text from its except branch
mask_pii_partial(text, env) == Anonymize(text, AnalyzerResults(text, env.stat))

\* DocumentProcessor.mask_pii; env.raises: analyze or anonymize raises,
\* env.stat: the results of the statistical recognizer for this text
mask_pii(text, env) ==
    IF env.raises THEN text
    ELSE Anonymize(text, AnalyzerResults(text, env.stat))

\* entity types the statistical recognizer reports in the model
StatTypes == {"ORGANIZATION"}
\* its scores, in hundredths: one under and one over the threshold
StatScores == {50, 85}
\* tokens the statistical recognizer may take for a name: the words and the
\* capitalised phrase of the marker line
IsProse(t) == t \in Words \/ t = NoDiffMarker

StatCandidates(text) ==
    {[type |-> ty, start |-> k - 1, end |-> k, score |-> sc, source |-> "statistical"] :
        ty \in StatTypes, sc \in StatScores,
        k \in {q \in 1..Len(text) : IsProse(text[q])}}

\* what a call of mask_pii may meet
MaskEnvs(text) ==
    {[raises |-> TRUE, stat |-> {}]}
    \cup {[raises |-> FALSE, stat |-> S] :
            S \in {T \in SUBSET StatCandidates(text) : Cardinality(T) <= MaxStatSpans}}

----------------------------------------------------------------------------
(* The input directory and the OCR collaborator *)

\* File names a directory may hold, in ascending order of their names
\* (code-point order: capitals first), and the suffix of each.
NamePool == <<"B.JPG", "a.png", "c.jpeg", "d.png", "e.jpg">>
SuffixPool == <<".JPG", ".png", ".jpeg", ".png", ".jpg">>
OtherFile == "notes.txt"

ImageNames == {NamePool[k] : k \in 1..MaxImages}
DirNames == ImageNames \cup {OtherFile}

\* position of a name in the ascending order of names
NameRank(name) == CHOOSE k \in 1..Len(NamePool) : NamePool[k] = name

\* f.suffix.lower()
SuffixLower(name) ==
    IF name = OtherFile THEN ".txt"
    ELSE LET sfx == SuffixPool[NameRank(name)]
         IN IF sfx = ".JPG" THEN ".jpg" ELSE sfx

\* f.suffix.lower() in {".jpg", ".jpeg", ".png"}
IsImage(name) == SuffixLower(name) \in {".jpg", ".jpeg", ".png"}

\* the orders in which glob may yield the files of a directory
Listings ==
    {s \in UNION {[1..n -> DirNames] : n \in 0..Cardinality(DirNames)} :
        \A a, b \in 1..Len(s) : a # b => s[a] # s[b]}

\* texts the OCR step may extract from an image
TextPool ==
    { <<>>,
      <<"Name:", " ", "Alice">>,
      <<"Name:", " ", "Bob", NL, "SSN:", " ", "123-45-6789">> }

\* what parse_image may meet: the OCR raises, or yields a text
OcrOutcomes ==
    {[ok |-> FALSE, text |-> <<>>]} \cup {[ok |-> TRUE, text |-> t] : t \in TextPool}

\* DocumentProcessor.parse_image
parse_image(outcome) == IF outcome.ok THEN outcome.text ELSE <<>>

----------------------------------------------------------------------------
(* process_directory *)

\* images.sort()
SortImagesUnsorted(seq) == seq
SortImages(seq) == SortSeq(seq, LAMBDA a, b : NameRank(a) < NameRank(b))

\* `if text:` before documents[img.name] = text
KeepDocumentAlways(text) == TRUE
KeepDocument(text) == text # <<>>

\* width of the separator lines
SeparatorLen == 80
Separator == RepStr("=", SeparatorLen)

\* the first element of both reports
ReportHead == <<"Document Comparison Report", NL, "Generated: ", "<now>", NL, NL>>

\* f"Comparison: {name1} vs {name2}\n{'=' * 80}\n"
comparison_header(name1, name2) ==
    <<"Comparison: ", name1, " vs ", name2, NL, Separator, NL>>

\* diff_text of a pair from its diff lines
diff_text_of(diff) ==
    IF diff # <<>> THEN <<DiffTitle, NL>> \o JoinLines(diff) \o <<NL>>
    ELSE <<NoDiffMarker, NL>>

\* f"\n{'=' * 80}\n\n"
SectionTail == <<NL, Separator, NL, NL>>

\* unmasked_report.append(comparison_header + diff_text + tail)
AppendUnmasked(report, header, body) == Append(report, header \o body \o SectionTail)

\* masked_report.append(comparison_header + masked_diff + tail)
AppendMaskedOnlyDiffs(report, header, body) ==
    IF Head(body) = NoDiffMarker THEN report
    ELSE Append(report, header \o body \o SectionTail)
AppendMasked(report, header, body) == Append(report, header \o body \o SectionTail)

\* list(documents.keys())[i + 1:] for the document at position i0 (1-based)
KeysAfter(docs, i0) == (i0 + 1)..Len(docs)

\* the first pair (x, y) of the nested loops at or after (i0, j0)
RECURSIVE PairFrom(_, _, _)
PairFrom(docs, i0, j0) ==
    IF i0 > Len(docs) THEN <<0, 0>>
    ELSE IF \E y \in KeysAfter(docs, i0) : y >= j0
         THEN <<i0, CHOOSE y \in KeysAfter(docs, i0) :
                        y >= j0 /\ \A z \in KeysAfter(docs, i0) : z >= j0 => y <= z>>
         ELSE PairFrom(docs, i0 + 1, 0)

InitPipe ==
    /\ pc = "start"
    /\ is_dir \in BOOLEAN
    /\ listing \in (IF is_dir THEN Listings ELSE {<<>>})
    /\ images = <<>>
    /\ idx = 0
    /\ documents = <<>>
    /\ ocr_log = <<>>
    /\ i = 0
    /\ j = 0
    /\ unmasked_report = <<>>
    /\ masked_report = <<>>
    /\ mask_log = <<>>
    /\ unmasked_file = <<>>
    /\ masked_file = <<>>
    /\ doc_file = <<>>

\* lines 177-191: the directory check, the image list, its sort, the size check
FindImages ==
    /\ pc = "start"
    /\ IF ~is_dir
       THEN /\ pc' = "exit"
            /\ UNCHANGED <<listing, images, idx>>
       ELSE LET found == SortImages(SelectSeq(listing, IsImage))
            IN /\ images' = found
               /\ listing' = <<>>
               /\ IF Len(found) < 2
                  THEN pc' = "done" /\ idx' = idx
                  ELSE pc' = "parse" /\ idx' = 1
    /\ UNCHANGED <<is_dir, documents, ocr_log, i, j, unmasked_report, masked_report,
                   mask_log, unmasked_file, masked_file, doc_file, fn_in, fn_out>>

\* lines 194-203: one round of the loop over images; after the last one the
\* reports are created and the pairwise loops start
ParseImage ==
    /\ pc = "parse"
    /\ \E outcome \in OcrOutcomes :
          LET text == parse_image(outcome)
              name == images[idx]
              docs == IF KeepDocument(text)
                      THEN Append(documents, [name |-> name, text |-> text])
                      ELSE documents
              last == idx = Len(images)
              pair == PairFrom(docs, 1, 0)
          IN /\ documents' = docs
             /\ ocr_log' = Append(ocr_log, [name |-> name, ok |-> outcome.ok,
                                            chars |-> Len(text)])
             /\ idx' = IF last THEN 0 ELSE idx + 1
             /\ unmasked_report' = IF last THEN <<ReportHead>> ELSE unmasked_report
             /\ masked_report' = IF last THEN <<ReportHead>> ELSE masked_report
             /\ i' = IF last THEN pair[1] ELSE i
             /\ j' = IF last THEN pair[2] ELSE j
             /\ pc' = IF ~last THEN "parse"
                      ELSE IF pair[1] = 0 THEN "save" ELSE "compare"
    /\ UNCHANGED <<is_dir, listing, images, mask_log, unmasked_file, masked_file,
                   doc_file, fn_in, fn_out>>

\* lines 205-220: one round of the inner loop
ComparePair ==
    /\ pc = "compare"
    /\ LET name1 == documents[i].name
           name2 == documents[j].name
           diff == compare_texts(documents[i].text, documents[j].text, name1, name2)
           header == comparison_header(name1, name2)
           diff_text == diff_text_of(diff)
           pair == PairFrom(documents, i, j + 1)
       IN /\ unmasked_report' = AppendUnmasked(unmasked_report, header, diff_text)
          /\ \E env \in MaskEnvs(diff_text) :
                /\ masked_report' =
                      AppendMasked(masked_report, header, mask_pii(diff_text, env))
                /\ mask_log' = Append(mask_log,
                                      [name1 |-> name1, name2 |-> name2,
                                       diff_text |-> diff_text, failed |-> env.raises])
          /\ i' = pair[1]
          /\ j' = pair[2]
          /\ pc' = IF pair[1] = 0 THEN "save" ELSE "compare"
    /\ UNCHANGED <<is_dir, listing, images, idx, documents, ocr_log, unmasked_file,
                   masked_file, doc_file, fn_in, fn_out>>

\* lines 222-232: both report files are written
SaveReports ==
    /\ pc = "save"
    /\ unmasked_file' = Flatten(unmasked_report)
    /\ masked_file' = Flatten(masked_report)
    /\ idx' = IF documents = <<>> THEN 0 ELSE 1
    /\ pc' = IF documents = <<>> THEN "done" ELSE "docs"
    /\ UNCHANGED <<is_dir, listing, images, documents, ocr_log, i, j, unmasked_report,
                   masked_report, mask_log, doc_file, fn_in, fn_out>>

\* lines 235-240: one round of the loop writing the masked documents
MaskDocument ==
    /\ pc = "docs"
    /\ \E env \in MaskEnvs(documents[idx].text) :
          doc_file' = <<"masked_", documents[idx].name>>
                      \o mask_pii(documents[idx].text, env)
    /\ idx' = IF idx = Len(documents) THEN 0 ELSE idx + 1
    /\ pc' = IF idx = Len(documents) THEN "done" ELSE "docs"
    /\ UNCHANGED <<is_dir, listing, images, documents, ocr_log, i, j, unmasked_report,
                   masked_report, mask_log, unmasked_file, masked_file, fn_in, fn_out>>

Init ==
    /\ InitPipe
    /\ fn_in = <<>>
    /\ fn_out = <<>>

Next ==
    \/ FindImages
    \/ ParseImage
    \/ ComparePair
    \/ SaveReports
    \/ MaskDocument

Spec == Init /\ [][Next]_vars

----------------------------------------------------------------------------
(* compare_texts on its own: the inputs are drawn from the texts over     *)
(* DiffTokens of at most MaxTextLen tokens.                               *)

DiffTokens == {"x", "y", NL}
DiffTexts == UNION {[1..n -> DiffTokens] : n \in 0..MaxTextLen}

InitDiff ==
    /\ pc = "fn"
    /\ is_dir = TRUE
    /\ listing = <<>>
    /\ images = <<>>
    /\ idx = 0
    /\ documents = <<>>
    /\ ocr_log = <<>>
    /\ i = 0
    /\ j = 0
    /\ unmasked_report = <<>>
    /\ masked_report = <<>>
    /\ mask_log = <<>>
    /\ unmasked_file = <<>>
    /\ masked_file = <<>>
    /\ doc_file = <<>>
    /\ fn_in \in {[text1 |-> a, text2 |-> b] : a \in DiffTexts, b \in DiffTexts}
    /\ fn_out = <<>>

\* lines 208-215 for one pair of texts: the diff and the diff_text made of it
CompareTexts ==
    /\ pc = "fn"
    /\ fn_out' = [diff |-> compare_texts(fn_in.text1, fn_in.text2, "a.png", "c.jpeg"),
                  diff_text |-> diff_text_of(
                      compare_texts(fn_in.text1, fn_in.text2, "a.png", "c.jpeg"))]
    /\ pc' = "fn_done"
    /\ UNCHANGED <<is_dir, listing, images, idx, documents, ocr_log, i, j,
                   unmasked_report, masked_report, mask_log, unmasked_file,
                   masked_file, doc_file, fn_in>>

NextDiff == CompareTexts

SpecDiff == InitDiff /\ [][NextDiff]_vars

----------------------------------------------------------------------------
(* compare_texts over whole line sequences: the texts are up to MaxLines  *)
(* lines drawn from LinePool, joined by line breaks.                      *)

LinePool == {<<"x">>, <<"y">>}
\* sequences long enough for two hunks: a run of 2 * DiffContext + 1 lines
\* "x" between a first and a last line that vary
EndsVary ==
    {[k \in 1..(2 * DiffContext + 3) |->
         IF k = 1 THEN p ELSE IF k = 2 * DiffContext + 3 THEN q ELSE <<"x">>] :
       p \in LinePool, q \in LinePool}
LineSeqs == UNION {[1..n -> LinePool] : n \in 0..MaxLines} \cup EndsVary

InitLines ==
    /\ pc = "fn"
    /\ is_dir = TRUE
    /\ listing = <<>>
    /\ images = <<>>
    /\ idx = 0
    /\ documents = <<>>
    /\ ocr_log = <<>>
    /\ i = 0
    /\ j = 0
    /\ unmasked_report = <<>>
    /\ masked_report = <<>>
    /\ mask_log = <<>>
    /\ unmasked_file = <<>>
    /\ masked_file = <<>>
    /\ doc_file = <<>>
    /\ fn_in \in {[text1 |-> JoinLines(a), text2 |-> JoinLines(b)] :
                    a \in LineSeqs, b \in LineSeqs}
    /\ fn_out = <<>>

SpecLines == InitLines /\ [][NextDiff]_vars

----------------------------------------------------------------------------
(* mask_pii on its own: the texts are up to MaxMaskLen tokens of          *)
(* MaskTokens, and the statistical recognizer may report any spans.       *)

MaskTokens == {"Name:", " ", "123-45-6789", "www.a.com"}

\* token sequences that stand for a text: two tokens that are not blanks
\* follow each other only after "Name:"
MaskTexts ==
    {t \in UNION {[1..n -> MaskTokens] : n \in 0..MaxMaskLen} :
        \A k \in 1..(Len(t) - 1) : t[k] \in {" ", "Name:"} \/ t[k + 1] = " "}

\* any span of the text, with a score under or over the threshold
StatSpans(text) ==
    {[type |-> ty, start |-> a, end |-> b, score |-> sc, source |-> "statistical"] :
        ty \in StatTypes, sc \in StatScores,
        a \in 0..(Len(text) - 1), b \in 1..Len(text)}

MaskEnvsAny(text) ==
    {[raises |-> TRUE, stat |-> {}]}
    \cup {[raises |-> FALSE, stat |-> S] :
            S \in {T \in SUBSET {r \in StatSpans(text) : r.start < r.end} :
                      Cardinality(T) <= MaxStatSpans}}

InitMask ==
    /\ pc = "fn"
    /\ is_dir = TRUE
    /\ listing = <<>>
    /\ images = <<>>
    /\ idx = 0
    /\ documents = <<>>
    /\ ocr_log = <<>>
    /\ i = 0
    /\ j = 0
    /\ unmasked_report = <<>>
    /\ masked_report = <<>>
    /\ mask_log = <<>>
    /\ unmasked_file = <<>>
    /\ masked_file = <<>>
    /\ doc_file = <<>>
    /\ fn_in \in UNION {{[text |-> t, env |-> e] : e \in MaskEnvsAny(t)} :
                          t \in MaskTexts}
    /\ fn_out = <<>>

\* lines 128-151 for one text: what the recognizers detect, the results of
\* analyze, the results the anonymizer replaces, and the text returned
MaskPii ==
    /\ pc = "fn"
    /\ fn_out' = [detected |-> PatternSpans(fn_in.text) \cup fn_in.env.stat,
                  results |-> IF fn_in.env.raises THEN {}
                              ELSE AnalyzerResults(fn_in.text, fn_in.env.stat),
                  kept |-> IF fn_in.env.raises THEN <<>>
                           ELSE KeptSpans(fn_in.text,
                                          AnalyzerResults(fn_in.text, fn_in.env.stat)),
                  text |-> mask_pii(fn_in.text, fn_in.env)]
    /\ pc' = "fn_done"
    /\ UNCHANGED <<is_dir, listing, images, idx, documents, ocr_log, i, j,
                   unmasked_report, masked_report, mask_log, unmasked_file,
                   masked_file, doc_file, fn_in>>

NextMask == MaskPii

SpecMask == InitMask /\ [][NextMask]_vars

----------------------------------------------------------------------------
(* DiffReportProcessor (src/pii_sum_ollama.py, src/pii_report_sum.py):    *)
(* read_diff_file splits a report file into sections, process_report      *)
(* writes one section per parsed section, with a summary of the language   *)
(* model where the section has differences.  A file is a sequence of       *)
(* lines, each line one string.                                            *)

\* the "Comparison:" line of the k-th pair of a file
ComparisonLine(k) == "Comparison: doc" \o ToString(k) \o " vs doc" \o ToString(k + 1)

\* a diff line of a document line that holds the words of the marker
MarkerWordsLine == "+Result: No Differences Found"

\* line.startswith("Comparison:")
StartsWithComparison(line) == \E k \in 1..(MaxSections + 1) : line = ComparisonLine(k)
\* line.startswith("Document Comparison Report") or line.startswith("Generated:")
IsReportHead(line) == line \in {"Document Comparison Report", "Generated: <now>"}
\* line.strip() is not empty
NonBlank(line) == line \notin {"", " "}
\* "No Differences Found" in line
HasMarkerWords(line) == line \in {NoDiffMarker, MarkerWordsLine}

\* header[-2:] if header else []
LastTwo(header) == Slice(header, Max(0, Len(header) - 2), Len(header))

\* current_section["diff"] = "\n".join(diff_lines); sections.append(current_section)
CloseSection(st) ==
    Append(st.sections, [st.current[1] EXCEPT !.diff = st.diff_lines])

RECURSIVE ReadLoop(_, _)
\* the loop over content.splitlines(); st.current is <<>> for None
ReadLoop(lines, st) ==
    IF lines = <<>> THEN st
    ELSE IF StartsWithComparison(Head(lines))
         THEN ReadLoop(Tail(lines),
                       [sections |-> IF st.current # <<>> THEN CloseSection(st)
                                     ELSE st.sections,
                        current |-> <<[comparison |-> Head(lines),
                                       header |-> LastTwo(st.header),
                                       diff |-> <<>>]>>,
                        diff_lines |-> <<>>,
                        header |-> st.header])
         ELSE IF IsReportHead(Head(lines))
              THEN ReadLoop(Tail(lines), [st EXCEPT !.header = Append(@, Head(lines))])
              ELSE IF st.current # <<>> /\ NonBlank(Head(lines))
                   THEN ReadLoop(Tail(lines),
                                 [st EXCEPT !.diff_lines = Append(@, Head(lines))])
                   ELSE ReadLoop(Tail(lines), st)

\* `if current_section and diff_lines:` after the loop
CloseLast(st) ==
    IF st.current # <<>> /\ st.diff_lines # <<>> THEN CloseSection(st) ELSE st.sections

\* DiffReportProcessor.read_diff_file: the list of sections; the diff of a
\* section is kept as the list of the lines that "\n" joins
read_diff_file(lines) ==
    CloseLast(ReadLoop(lines, [sections |-> <<>>, current |-> <<>>,
                               diff_lines |-> <<>>, header |-> <<>>]))

\* what the language model may do with a prompt: answer, or raise
LlmOutcomes == {[ok |-> TRUE, content |-> "- **Name**: changed."],
                [ok |-> FALSE, content |-> ""]}

\* DiffReportProcessor.generate_readable_diff
generate_readable_diff(outcome) ==
    IF outcome.ok THEN outcome.content ELSE "Error generating summary."

\* `"No Differences Found" in diff_text`
SkipsSummary(diff) == \E k \in 1..Len(diff) : HasMarkerWords(diff[k])

\* the lines one round of the loop of process_report writes
OutputSection(comparison, content) == <<comparison, Separator, content, "", Separator, "">>

\* the bodies a section of the input file may have after its "Comparison:"
\* line: none, a blank line, the marker, a diff, a diff with a line that
\* holds the words of the marker
BodyPool ==
    { <<>>,
      <<"">>,
      <<Separator, NoDiffMarker, "", Separator, "">>,
      <<Separator, DiffTitle, "+Name: <PERSON>", "", Separator, "">>,
      <<Separator, DiffTitle, MarkerWordsLine, " ", "", Separator, "">> }

HeadPool == { <<>>, <<"Document Comparison Report", "Generated: <now>", "">> }

RECURSIVE FileBody(_, _)
\* the lines of the sections with the given bodies, numbered from k on
FileBody(bodies, k) ==
    IF bodies = <<>> THEN <<>>
    ELSE <<ComparisonLine(k)>> \o Head(bodies) \o FileBody(Tail(bodies), k + 1)

ReportFiles ==
    {h \o FileBody(b, 1) :
        h \in HeadPool, b \in UNION {[1..n -> BodyPool] : n \in 0..MaxSections}}

InitReport ==
    /\ pc = "read"
    /\ is_dir = TRUE
    /\ listing = <<>>
    /\ images = <<>>
    /\ idx = 0
    /\ documents = <<>>
    /\ ocr_log = <<>>
    /\ i = 0
    /\ j = 0
    /\ unmasked_report = <<>>
    /\ masked_report = <<>>
    /\ mask_log = <<>>
    /\ unmasked_file = <<>>
    /\ masked_file = <<>>
    /\ doc_file = <<>>
    /\ fn_in \in {[is_file |-> f, content |-> c] : f \in BOOLEAN, c \in ReportFiles}
    /\ fn_out = <<>>

\* process_report up to its loop: read_diff_file (which exits when the input
\* is no file) and the first lines of the output file
ReadDiffFile ==
    /\ pc = "read"
    /\ IF ~fn_in.is_file
       THEN pc' = "exit" /\ fn_out' = fn_out
       ELSE /\ fn_out' = [sections |-> read_diff_file(fn_in.content),
                          pos |-> 1,
                          written |-> <<<<"Readable Comparison Report",
                                          "Generated: <now>", "">>>>,
                          llm_log |-> <<>>]
            /\ pc' = IF read_diff_file(fn_in.content) = <<>> THEN "done" ELSE "summarise"
    /\ UNCHANGED <<is_dir, listing, images, idx, documents, ocr_log, i, j,
                   unmasked_report, masked_report, mask_log, unmasked_file,
                   masked_file, doc_file, fn_in>>

\* one round of the loop of process_report over the sections
SummariseSection ==
    /\ pc = "summarise"
    /\ \E outcome \in LlmOutcomes :
          LET section == fn_out.sections[fn_out.pos]
              skip == SkipsSummary(section.diff)
              content == IF skip THEN "No significant differences detected."
                         ELSE generate_readable_diff(outcome)
          IN fn_out' = [fn_out EXCEPT
                          !.written = Append(@, OutputSection(section.comparison, content)),
                          !.llm_log = IF skip THEN @
                                      ELSE Append(@, [comparison |-> section.comparison,
                                                      pos |-> fn_out.pos,
                                                      ok |-> outcome.ok]),
                          !.pos = @ + 1]
    /\ pc' = IF fn_out.pos = Len(fn_out.sections) THEN "done" ELSE "summarise"
    /\ UNCHANGED <<is_dir, listing, images, idx, documents, ocr_log, i, j,
                   unmasked_report, masked_report, mask_log, unmasked_file,
                   masked_file, doc_file, fn_in>>

NextReport ==
    \/ ReadDiffFile
    \/ SummariseSection

SpecReport == InitReport /\ [][NextReport]_vars

----------------------------------------------------------------------------
(* Reading the reports back *)

\* number of comparison sections of a report (its first element is the head)
NumSections(report) == IF report = <<>> THEN 0 ELSE Len(report) - 1

\* the k-th comparison section of a report
SectionAt(report, k) == report[k + 1]

\* the two names of a section's first line, as written in the report
HeaderPair(section) == <<section[2], section[4]>>

\* the first line of a section: its tokens before the first line break
FirstLine(section) ==
    SubSeq(section, 1,
           (CHOOSE p \in 1..Len(section) :
                section[p] = NL /\ \A q \in 1..(p - 1) : section[q] # NL) - 1)

\* the text between a section's header (7 tokens) and its tail (4 tokens)
SectionBody(section) == Slice(section, 7, Len(section) - 4)

HeaderPairs(report) == [k \in 1..NumSections(report) |-> HeaderPair(SectionAt(report, k))]

DocNames == {documents[k].name : k \in 1..Len(documents)}

\* the pairs of names of S, each unordered pair once with the lower name
\* first, in ascending order of (first, second)
RECURSIVE PairsAscending(_)
PairsAscending(P) ==
    IF P = {} THEN <<>>
    ELSE LET m == CHOOSE p \in P : \A q \in P :
                      \/ NameRank(p[1]) < NameRank(q[1])
                      \/ p[1] = q[1] /\ NameRank(p[2]) <= NameRank(q[2])
         IN <<m>> \o PairsAscending(P \ {m})

CanonicalPairs(S) ==
    PairsAscending({p \in S \X S : NameRank(p[1]) < NameRank(p[2])})

IsPrefix(s, t) == Len(s) <= Len(t) /\ SubSeq(t, 1, Len(s)) = s

LoopsDone == pc \in {"save", "docs", "done"} /\ unmasked_report # <<>>

Separator80 ==
    "================================================================================"

----------------------------------------------------------------------------
(* Claims *)

\* C1: after any number of processed pairs the unmasked and the masked
\* report hold the same number of sections, and the k-th section of each
\* starts with the line "Comparison: <nameA> vs <nameB>" of the k-th pair,
\* whether or not the pair differs and whether or not mask_pii succeeded.
C1_ReportsAligned ==
    /\ Len(unmasked_report) = Len(masked_report)
    /\ NumSections(unmasked_report) = Len(mask_log)
    /\ \A k \in 1..Len(mask_log) :
          /\ FirstLine(SectionAt(unmasked_report, k))
                = <<"Comparison: ", mask_log[k].name1, " vs ", mask_log[k].name2>>
          /\ FirstLine(SectionAt(masked_report, k))
                = FirstLine(SectionAt(unmasked_report, k))

C1_Witness ==
    /\ pc = "done"
    /\ Len(mask_log) >= 3
    /\ \E k \in 1..Len(mask_log) : mask_log[k].failed
    /\ \E k \in 1..Len(mask_log) : ~mask_log[k].failed
    /\ \E k \in 1..Len(mask_log) : mask_log[k].diff_text = <<NoDiffMarker, NL>>
    /\ \E k \in 1..Len(mask_log) : mask_log[k].diff_text # <<NoDiffMarker, NL>>

\* C2: the sections written so far are, in both reports, the first pairs of
\* the retained documents in ascending order of (first name, second name),
\* each unordered pair of distinct documents once with the lower name
\* first; once the loops are over, they are all of these pairs.  The
\* sequence depends on the set of retained documents only, not on the order
\* in which the directory listed them.
C2_PairsInOrder ==
    /\ IsPrefix(HeaderPairs(unmasked_report), CanonicalPairs(DocNames))
    /\ HeaderPairs(masked_report) = HeaderPairs(unmasked_report)
    /\ LoopsDone => HeaderPairs(unmasked_report) = CanonicalPairs(DocNames)

C2_Witness ==
    /\ pc = "done"
    /\ Len(documents) >= 3
    /\ NumSections(unmasked_report) = 3

\* C3 (as claimed): no section of the masked report contains the original
\* text of an entity span that the analyzer detects in the section's diff
\* text with a score at or above the threshold, whatever mask_pii met.
C3_NoDetectedPiiInMasked ==
    \A k \in 1..Len(mask_log) :
        \A r \in AnalyzerResults(mask_log[k].diff_text, {}) :
            ~Contains(SectionBody(SectionAt(masked_report, k)),
                      Slice(mask_log[k].diff_text, r.start, r.end))

\* C4: when mask_pii logs an error for a pair, the masked section of the pair
\* carries exactly the pair's diff text, and the loops still reach every pair:
\* once they are over there is one section per pair of retained documents.
C4_FailOpen ==
    /\ \A k \in 1..Len(mask_log) :
          mask_log[k].failed =>
              /\ NumSections(masked_report) >= k
              /\ SectionBody(SectionAt(masked_report, k)) = mask_log[k].diff_text
    /\ LoopsDone =>
          2 * NumSections(masked_report) = Len(documents) * (Len(documents) - 1)

C4_Witness ==
    /\ pc = "done"
    /\ \E k \in 1..Len(mask_log) :
          /\ mask_log[k].failed
          /\ AnalyzerResults(mask_log[k].diff_text, {}) # {}
          /\ k < Len(mask_log)
          /\ SectionBody(SectionAt(masked_report, k)) = mask_log[k].diff_text

\* C5 (as claimed): a masked-report section written after mask_pii failed is
\* flagged in the report: it is not the very section the unmasked report
\* holds for the pair.
C5_FallbackFlagged ==
    \A k \in 1..Len(mask_log) :
        mask_log[k].failed =>
            SectionAt(masked_report, k) # SectionAt(unmasked_report, k)

\* C6: an image whose text extraction raised is in no comparison section of
\* either report; all pairs of the retained documents are still compared; and
\* the run ends without a report only for a directory that is none or holds
\* fewer than two images.
C6_FailedImageSkipped ==
    /\ \A e \in 1..Len(ocr_log) :
          ~ocr_log[e].ok =>
              /\ ocr_log[e].name \notin DocNames
              /\ \A k \in 1..NumSections(unmasked_report) :
                    /\ ocr_log[e].name
                          \notin {HeaderPair(SectionAt(unmasked_report, k))[1],
                                  HeaderPair(SectionAt(unmasked_report, k))[2]}
                    /\ ocr_log[e].name
                          \notin {HeaderPair(SectionAt(masked_report, k))[1],
                                  HeaderPair(SectionAt(masked_report, k))[2]}
    /\ LoopsDone => HeaderPairs(masked_report) = CanonicalPairs(DocNames)
    /\ pc = "exit" => ~is_dir
    /\ (pc = "done" /\ masked_file = <<>>) => Len(images) < 2

C6_Witness ==
    /\ pc = "done"
    /\ \E e \in 1..Len(ocr_log) : ~ocr_log[e].ok
    /\ Len(documents) >= 2
    /\ NumSections(masked_report) >= 1
    /\ masked_file # <<>>

\* C7 (as claimed): an image whose extraction succeeds with an empty text is
\* retained in the document set.
C7_EmptyTextRetained ==
    \A e \in 1..Len(ocr_log) :
        (ocr_log[e].ok /\ ocr_log[e].chars = 0) => ocr_log[e].name \in DocNames

\* C8 (as claimed): for every pair whose diff is empty, the body of its
\* section is the literal "No Differences Found" in the unmasked report and
\* in the masked report.
C8_NoDiffMarkerInBoth ==
    \A k \in 1..Len(mask_log) :
        mask_log[k].diff_text = <<NoDiffMarker, NL>> =>
            /\ SectionBody(SectionAt(unmasked_report, k)) = <<"No Differences Found", NL>>
            /\ SectionBody(SectionAt(masked_report, k)) = <<"No Differences Found", NL>>

\* the lines of a section are: the header line, a line of 80 "=", at least
\* one body line, a blank line, a line of 80 "=" (and the blank line that
\* ends the section)
WellFramed(section) ==
    /\ Len(Splitlines(section)) >= 6
    /\ Len(Splitlines(section)[1]) = 4
    /\ Splitlines(section)[1][1] = "Comparison: "
    /\ Splitlines(section)[1][3] = " vs "
    /\ Splitlines(section)[2] = <<Separator80>>
    /\ Splitlines(section)[3] # <<>>
    /\ Splitlines(section)[Len(Splitlines(section)) - 2] = <<>>
    /\ Splitlines(section)[Len(Splitlines(section)) - 1] = <<Separator80>>
    /\ Splitlines(section)[Len(Splitlines(section))] = <<>>

\* C9 (as claimed): every section of either report is framed by the header
\* line, a line of 80 "=", the body, a blank line and a line of 80 "=".
C9_SectionFraming ==
    /\ \A k \in 1..NumSections(unmasked_report) :
          WellFramed(SectionAt(unmasked_report, k))
    /\ \A k \in 1..NumSections(masked_report) :
          WellFramed(SectionAt(masked_report, k))

\* C10: compare_texts of a text with itself, the empty text included,
\* returns no diff line, and the diff_text made of it is the literal
\* "No Differences Found".
C10_SelfDiffEmpty ==
    (pc = "fn_done" /\ fn_in.text1 = fn_in.text2) =>
        /\ fn_out.diff = <<>>
        /\ fn_out.diff_text = <<"No Differences Found", NL>>

C10_Witness ==
    /\ pc = "fn_done"
    /\ fn_in.text1 = fn_in.text2
    /\ Len(Splitlines(fn_in.text1)) >= 2
    /\ fn_out.diff = <<>>

----------------------------------------------------------------------------
(* Reading a unified diff back *)

RECURSIVE SideLines(_, _)
\* the lines of a diff body whose prefix is in `prefixes`, without the prefix
SideLines(body, prefixes) ==
    IF body = <<>> THEN <<>>
    ELSE (IF Head(Head(body)) \in prefixes THEN <<Tail(Head(body))>> ELSE <<>>)
         \o SideLines(Tail(body), prefixes)

\* source side: unchanged and deleted lines; target side: unchanged and inserted
SourceSide(body) == SideLines(body, {" ", "-"})
TargetSide(body) == SideLines(body, {" ", "+"})

IsBodyLine(line) == line # <<>> /\ Head(line) \in {" ", "-", "+"}

RECURSIVE BodyRun(_, _)
\* number of consecutive body lines from lines[q] on
BodyRun(lines, q) ==
    IF q <= Len(lines) /\ IsBodyLine(lines[q]) THEN 1 + BodyRun(lines, q + 1) ELSE 0

RECURSIVE SplitHunks(_)
\* the hunks of the lines after the two file header lines: each a "@@" line
\* and the body lines up to the next "@@" line
SplitHunks(lines) ==
    IF lines = <<>> THEN <<>>
    ELSE <<[header |-> Head(lines),
            body |-> SubSeq(lines, 2, 1 + BodyRun(lines, 2))]>>
         \o SplitHunks(SubSeq(lines, 2 + BodyRun(lines, 2), Len(lines)))

DiffHunks(diff) == IF Len(diff) < 2 THEN <<>> ELSE SplitHunks(Tail(Tail(diff)))

\* the "@@" line of a hunk that starts at offset s of a and t of b, given
\* the numbers of source-side and target-side lines of its body
HunkHeaderAt(h, s, t) ==
    <<"@@ -" \o FormatRangeUnified(s, s + Len(SourceSide(h.body)))
      \o " +" \o FormatRangeUnified(t, t + Len(TargetSide(h.body))) \o " @@">>

RECURSIVE HunksPatchFrom(_, _, _, _, _)
\* from offset pa of a and pb of b on: a stretch of d lines that a and b
\* share and no hunk shows, then the first hunk, which names the ranges that
\* start there, carries the lines of these ranges as its source and target
\* side and holds a changed line; likewise for the hunks after it; and the
\* lines after the last hunk are shared
HunksPatchFrom(a, b, hunks, pa, pb) ==
    IF hunks = <<>> THEN Slice(a, pa, Len(a)) = Slice(b, pb, Len(b))
    ELSE \E d \in 0..(Len(a) - pa) :
            /\ Head(hunks).header = HunkHeaderAt(Head(hunks), pa + d, pb + d)
            /\ Slice(a, pa, pa + d) = Slice(b, pb, pb + d)
            /\ SourceSide(Head(hunks).body)
                  = Slice(a, pa + d, pa + d + Len(SourceSide(Head(hunks).body)))
            /\ TargetSide(Head(hunks).body)
                  = Slice(b, pb + d, pb + d + Len(TargetSide(Head(hunks).body)))
            /\ \E k \in 1..Len(Head(hunks).body) :
                  Head(Head(hunks).body[k]) \in {"-", "+"}
            /\ HunksPatchFrom(a, b, Tail(hunks),
                              pa + d + Len(SourceSide(Head(hunks).body)),
                              pb + d + Len(TargetSide(Head(hunks).body)))

DiffSource(diff) == SourceSide(Flatten([k \in 1..Len(DiffHunks(diff)) |->
                                            DiffHunks(diff)[k].body]))
DiffTarget(diff) == TargetSide(Flatten([k \in 1..Len(DiffHunks(diff)) |->
                                            DiffHunks(diff)[k].body]))

----------------------------------------------------------------------------
(* Claims about mask_pii *)

\* number of line breaks of a text
CountNL(text) == Cardinality({k \in 1..Len(text) : text[k] = NL})

\* C12 (as claimed): for every pair whose diff text mask_pii rewrote, the
\* masked text has the same number of lines and the same number of line
\* breaks as the diff text: no replacement takes a line break with it.
C12_LineBreaksKept ==
    \A k \in 1..Len(mask_log) :
        ~mask_log[k].failed =>
            /\ CountNL(SectionBody(SectionAt(masked_report, k)))
                  = CountNL(mask_log[k].diff_text)
            /\ Len(Splitlines(SectionBody(SectionAt(masked_report, k))))
                  = Len(Splitlines(mask_log[k].diff_text))

\* the anonymizer replaces a span with the range and the type of r
IsKept(r) ==
    \E k \in 1..Len(fn_out.kept) :
        /\ fn_out.kept[k].type = r.type
        /\ fn_out.kept[k].start = r.start
        /\ fn_out.kept[k].end = r.end

\* r wins against o: the higher score, then the pattern-sourced span, then
\* the earlier start
Beats(r, o) ==
    \/ r.score > o.score
    \/ r.score = o.score /\ r.source = "pattern" /\ o.source = "statistical"
    \/ r.score = o.score /\ r.source = o.source /\ r.start < o.start

\* r and o overlap, and no other span of S overlaps either of them
OverlapGroupOfTwo(r, o, S) ==
    /\ r # o
    /\ Intersects(r, o)
    /\ \A p \in S \ {r, o} : ~Intersects(p, r) /\ ~Intersects(p, o)

\* C13 (as claimed): no two spans that mask_pii replaces intersect, and of
\* two results of the analyzer that overlap each other and nothing else, the
\* one with the higher score (ties: the pattern-sourced one, then the earlier
\* start) is replaced and the other one is not.
C13_ConflictFree ==
    (pc = "fn_done" /\ ~fn_in.env.raises) =>
        /\ \A a, b \in 1..Len(fn_out.kept) :
              a # b => ~Intersects(fn_out.kept[a], fn_out.kept[b])
        /\ \A r, o \in fn_out.results :
              (OverlapGroupOfTwo(r, o, fn_out.results) /\ Beats(r, o))
                  => IsKept(r) /\ ~IsKept(o)

RECURSIVE Substituted(_, _, _)
\* the text from offset `from` on, with the range of every span of seq
\* (ascending, not intersecting) replaced by "<" type ">" and the rest as it is
Substituted(text, seq, from) ==
    IF seq = <<>> THEN Slice(text, from, Len(text))
    ELSE Slice(text, from, Head(seq).start)
         \o <<"<" \o Head(seq).type \o ">">>
         \o Substituted(text, Tail(seq), Head(seq).end)

NoTwoIntersect(seq) ==
    \A a, b \in 1..Len(seq) : a # b => ~Intersects(seq[a], seq[b])

Covers(r, q) == r.start <= q /\ q < r.end

\* C15: a detected span with a score under the threshold (0.6; e.g. 0.5) is
\* not among the results of analyze and a detected span with a score at or
\* over it is; what mask_pii replaces is covered by detected spans at or over
\* the threshold, up to the blanks between two of them, and when every
\* detected span is under the threshold the text is returned as it is.
C15_ThresholdFilter ==
    (pc = "fn_done" /\ ~fn_in.env.raises) =>
        /\ \A r \in fn_out.detected : r.score < 60 => r \notin fn_out.results
        /\ \A r \in fn_out.detected : r.score >= 60 => r \in fn_out.results
        /\ \A k \in 1..Len(fn_out.kept) :
              \A q \in fn_out.kept[k].start..(fn_out.kept[k].end - 1) :
                  \/ \E r \in fn_out.detected : r.score >= 60 /\ Covers(r, q)
                  \/ /\ fn_in.text[q + 1] = " "
                     /\ \E r \in fn_out.detected :
                           r.score >= 60 /\ Covers(r, fn_out.kept[k].start)
                     /\ \E r \in fn_out.detected :
                           r.score >= 60 /\ Covers(r, fn_out.kept[k].end - 1)
        /\ (\A r \in fn_out.detected : r.score < 60) =>
              fn_out.kept = <<>> /\ fn_out.text = fn_in.text

\* a span of score 0.5 is detected next to a span that is replaced, and its
\* text is in the output
C15_Witness ==
    /\ pc = "fn_done"
    /\ ~fn_in.env.raises
    /\ Len(fn_out.kept) >= 1
    /\ \E r \in fn_out.detected :
          /\ r.score = 50
          /\ fn_in.text[r.start + 1] # " "
          /\ r \notin fn_out.results
          /\ \A k \in 1..Len(fn_out.kept) : ~Intersects(r, fn_out.kept[k])
          /\ Contains(fn_out.text, Slice(fn_in.text, r.start, r.end))

----------------------------------------------------------------------------
(* Claims about DiffReportProcessor *)

RECURSIVE NonBlankRun(_)
\* the non-blank lines up to the next "Comparison:" line
NonBlankRun(lines) ==
    IF lines = <<>> \/ StartsWithComparison(Head(lines)) THEN <<>>
    ELSE (IF NonBlank(Head(lines)) THEN <<Head(lines)>> ELSE <<>>)
         \o NonBlankRun(Tail(lines))

RECURSIVE SectionsByLine(_)
\* one section per "Comparison:" line, in file order, each with the
\* non-blank lines that follow it up to the next "Comparison:" line
SectionsByLine(lines) ==
    IF lines = <<>> THEN <<>>
    ELSE (IF StartsWithComparison(Head(lines))
          THEN <<[comparison |-> Head(lines), diff |-> NonBlankRun(Tail(lines))]>>
          ELSE <<>>)
         \o SectionsByLine(Tail(lines))

\* C16 (as claimed): read_diff_file returns one section per line of the file
\* that begins with "Comparison:", in file order, each with the non-blank
\* lines that follow it up to the next such line, the last section included.
C16_SectionPerComparisonLine ==
    pc \in {"summarise", "done"} =>
        /\ Len(fn_out.sections) = Len(SectionsByLine(fn_in.content))
        /\ \A k \in 1..Len(fn_out.sections) :
              /\ fn_out.sections[k].comparison
                    = SectionsByLine(fn_in.content)[k].comparison
              /\ fn_out.sections[k].diff = SectionsByLine(fn_in.content)[k].diff

\* the language model was called for the section at position k
Summarised(k) == \E e \in 1..Len(fn_out.llm_log) : fn_out.llm_log[e].pos = k

\* the section records differences: its diff holds the line "Differences Found:"
RecordsDifferences(section) ==
    \E k \in 1..Len(section.diff) : section.diff[k] = "Differences Found:"

\* the section records none: its diff holds the line "No Differences Found"
\* and no line "Differences Found:"
RecordsNoDifference(section) ==
    /\ \E k \in 1..Len(section.diff) : section.diff[k] = "No Differences Found"
    /\ ~RecordsDifferences(section)

\* C17 (as claimed): process_report has written one section per parsed
\* section handled so far, in order, and in the end one per parsed section;
\* the language model is called for every section that records differences
\* and for no section that records none; a failed call leaves "Error
\* generating summary." in its section and the later sections are written.
C17_SummaryPerSection ==
    pc \in {"summarise", "done"} =>
        /\ Len(fn_out.written) = fn_out.pos
        /\ pc = "done" => Len(fn_out.written) = Len(fn_out.sections) + 1
        /\ \A k \in 1..(fn_out.pos - 1) :
              /\ fn_out.written[k + 1][1] = fn_out.sections[k].comparison
              /\ RecordsDifferences(fn_out.sections[k]) => Summarised(k)
              /\ RecordsNoDifference(fn_out.sections[k]) => ~Summarised(k)
              /\ Summarised(k) =>
                    fn_out.written[k + 1][3] # "No significant differences detected."
        /\ \A e \in 1..Len(fn_out.llm_log) :
              ~fn_out.llm_log[e].ok =>
                  fn_out.written[fn_out.llm_log[e].pos + 1][3]
                      = "Error generating summary."

====
